---- MODULE Spec2Model ----
(***************************************************************************)
(* Model of rtk's output-compaction filters: filter_cargo_build,           *)
(* filter_cargo_test and filter_cargo_clippy (src/src/cargo_cmd.rs),       *)
(* filter_ls_output (src/src/ls.rs), and the wrappers that run the tool,   *)
(* print the summary, track it and propagate the exit status.              *)
(*                                                                         *)
(* Text is modelled at character level: a Rust &str / String is a TLA+     *)
(* string, and the str methods the code calls (starts_with, contains,      *)
(* trim, rfind, lines, ...) are operators computed character by character. *)
(* The raw input of a filter is the variable `output`, kept as the         *)
(* sequence output.lines(); each loop iteration of a filter is one action  *)
(* that consumes the next line, and the code after the loop is one action. *)
(*                                                                         *)
(* TLA+ strings are ASCII here, so two non-ASCII characters of the         *)
(* source are written with ASCII stand-ins of the same length (1 char,     *)
(* not whitespace): CHECK for U+2713, BAR for U+2550, CHART for U+1F4CA,   *)
(* ARROW for U+2192.                                                       *)
(***************************************************************************)
EXTENDS Integers, Sequences, FiniteSets, TLC

VARIABLES
    cmd,                \* the tool wrapped: "build" | "test" | "clippy" | "ls"
    pc,                 \* "spawn", "loop" (inside the filter's loop over the raw
                        \* lines), "done", "printed", "tracked", "exited",
                        \* "returned", "failed", "panic"
    output,             \* the lines of the raw text consumed so far
    result,             \* the String the filter returns
    \* filter_cargo_build
    errors, warnings, error_count, compiled, in_error, current_error,
    \* filter_cargo_test
    failures, summary_lines, in_failure_section, current_failure,
    \* filter_cargo_clippy (error_count is shared with the build filter)
    by_rule, warning_count, current_rule,
    \* filter_ls_output: show_all, and the lines its filter has retained
    show_all, ls_lines,
    \* the wrappers run_build, run_test, run_clippy and ls::run
    args,               \* the caller's arguments
    status,             \* ExitStatus of the tool: "unset" | "exited" | "signaled"
    code,               \* the exit code of a tool that exited
    stdout,             \* the texts written to standard output
    tracked,            \* the <<raw, filtered>> pairs given to the tracking sink
    exit_code,          \* the exit code of the wrapper: <<>> while it runs
    verbose,            \* the verbosity flag of the caller
    stderr              \* the texts written to standard error

vars == <<cmd, pc, output, result,
          errors, warnings, error_count, compiled, in_error, current_error,
          failures, summary_lines, in_failure_section, current_failure,
          by_rule, warning_count, current_rule,
          show_all, ls_lines, args, status, code, stdout, tracked, exit_code,
          verbose, stderr>>

buildVars == <<errors, warnings, compiled, in_error, current_error>>
testVars == <<failures, summary_lines, in_failure_section, current_failure>>
clippyVars == <<by_rule, warning_count, current_rule>>
lsVars == <<show_all, ls_lines>>
runVars == <<args, status, code, stdout, tracked, exit_code, verbose, stderr>>

(***************************************************************************)
(* Bounds of the model.                                                    *)
(***************************************************************************)
MaxBuildLines == 4      \* raw lines of a build output, full vocabulary
MaxBlockLines == 6      \* raw lines of a build output, block vocabulary
MaxLongLines == 16      \* raw lines of a long build output
MaxOdd == 2             \* lines of a long output that differ from the default
MaxTestLines == 4       \* raw lines of a test output
MaxFailing == 11        \* failing tests of a well-formed failing test run
MaxClippyLines == 4     \* raw lines of a lint output
MaxPermuted == 4        \* rules of a map whose iteration orders are all tried
MaxLintRules == 16      \* rules of a long lint output
MaxLsLines == 3         \* raw lines of a directory listing
MaxRunLines == 2        \* raw lines of the output of a tool a wrapper runs
MaxExtensions == 6      \* extensions of a long listing
MaxOddEntries == 2      \* other lines of a long listing

(***************************************************************************)
(* Program constants.                                                      *)
(***************************************************************************)
MinBlockLen == 3        \* a blank line closes a block holding more lines
MaxIssues == 15         \* issue blocks shown by filter_cargo_build
MaxFailures == 10       \* failures shown by filter_cargo_test
FailureWidth == 200     \* characters of one failure shown
FallbackLines == 5      \* raw lines shown by the fallback of filter_cargo_test
MaxRules == 15          \* rule groups shown by filter_cargo_clippy
MaxLocations == 3       \* locations shown per rule group
TopExtensions == 5      \* extensions shown in the summary of a listing
WrapTail == 51616        \* 2^64 = 18446744073709551616; usize of a 64-bit target
NameField == 9          \* field of a long-format listing line where the name starts
BarWidth == 39          \* width of the separator line

CHECK == "@"
BAR == "="
CHART == "#"
ARROW == ">"
LsError == "ls: cannot access"
WrapHead == "184467440737095"

(***************************************************************************)
(* str methods.                                                            *)
(***************************************************************************)
Min(S) == CHOOSE m \in S : \A n \in S : m <= n
Max(S) == CHOOSE m \in S : \A n \in S : m >= n

char_at(s, i) == SubSeq(s, i, i)

is_whitespace(c) == c \in {" ", "\t", "\n", "\r"}

is_empty(s) == Len(s) = 0

starts_with(s, p) == Len(s) >= Len(p) /\ SubSeq(s, 1, Len(p)) = p

ends_with(s, p) == Len(s) >= Len(p) /\ SubSeq(s, Len(s) - Len(p) + 1, Len(s)) = p

contains(s, p) == \E i \in 1..(Len(s) - Len(p) + 1) : SubSeq(s, i, i + Len(p) - 1) = p

\* Position of the first / last character that is not whitespace, 0 if none.
RECURSIVE first_black(_, _)
first_black(s, i) ==
    IF i > Len(s) THEN 0
    ELSE IF ~is_whitespace(char_at(s, i)) THEN i ELSE first_black(s, i + 1)

RECURSIVE last_black(_, _)
last_black(s, i) ==
    IF i < 1 THEN 0
    ELSE IF ~is_whitespace(char_at(s, i)) THEN i ELSE last_black(s, i - 1)

trim_start(s) ==
    LET k == first_black(s, 1) IN IF k = 0 THEN "" ELSE SubSeq(s, k, Len(s))

trim_end(s) == SubSeq(s, 1, last_black(s, Len(s)))

trim(s) == trim_end(trim_start(s))

\* str::find / str::rfind of one character: the 1-based position, 0 for None.
RECURSIVE find_from(_, _, _)
find_from(s, c, i) ==
    IF i > Len(s) THEN 0
    ELSE IF char_at(s, i) = c THEN i ELSE find_from(s, c, i + 1)

find(s, c) == find_from(s, c, 1)

RECURSIVE rfind_from(_, _, _)
rfind_from(s, c, i) ==
    IF i < 1 THEN 0
    ELSE IF char_at(s, i) = c THEN i ELSE rfind_from(s, c, i - 1)

rfind(s, c) == rfind_from(s, c, Len(s))

\* str::lines: split at "\n"; a final empty piece is not a line.
RECURSIVE lines(_)
lines(s) ==
    IF s = "" THEN <<>>
    ELSE LET nl == find(s, "\n")
         IN  IF nl = 0 THEN <<s>>
             ELSE <<SubSeq(s, 1, nl - 1)>> \o lines(SubSeq(s, nl + 1, Len(s)))

\* [String]::join(sep)
RECURSIVE join(_, _)
join(v, sep) ==
    IF v = <<>> THEN ""
    ELSE IF Len(v) = 1 THEN v[1]
    ELSE v[1] \o sep \o join(Tail(v), sep)

\* Iterator::take(n) on a sequence
take(v, n) == SubSeq(v, 1, IF Len(v) < n THEN Len(v) ELSE n)

RECURSIVE repeat(_, _)
repeat(c, n) == IF n = 0 THEN "" ELSE c \o repeat(c, n - 1)

(***************************************************************************)
(* filter_cargo_build                                                      *)
(***************************************************************************)
\* Mutant: download progress counted as a compiled crate.
is_compiling_counts_downloads(line) ==
    \/ starts_with(trim_start(line), "Compiling")
    \/ starts_with(trim_start(line), "Download")

\* One "Compiling" line: counted, not shown.
is_compiling(line) == starts_with(trim_start(line), "Compiling")

\* Download progress and the "Finished" banner: dropped.
is_progress(line) ==
    \/ starts_with(trim_start(line), "Downloading")
    \/ starts_with(trim_start(line), "Downloaded")
    \/ starts_with(trim_start(line), "Finished")

is_error_line(line) == starts_with(line, "error[") \/ starts_with(line, "error:")

\* "error: aborting due to" / "error: could not compile" summary lines
is_error_summary(line) ==
    contains(line, "aborting due to") \/ contains(line, "could not compile")

\* "warning: crate generated N warnings" summary line
is_warning_summary(line) ==
    /\ starts_with(line, "warning:")
    /\ contains(line, "generated")
    /\ contains(line, "warning")

is_warning_line(line) == starts_with(line, "warning:") \/ starts_with(line, "warning[")

\* The lines that start an issue block: an error or warning marker at line
\* start that no earlier branch of the loop has consumed.
issue_marker(line) ==
    /\ ~is_compiling(line) /\ ~is_progress(line)
    /\ \/ is_error_line(line) /\ ~is_error_summary(line)
       \/ ~is_error_line(line) /\ ~is_warning_summary(line) /\ is_warning_line(line)

\* Mutant: a new issue marker does not push the open block.
flush_open_forgotten(errs, cur, open) == errs

\* The open block is pushed when a new issue marker arrives.
flush_open(errs, cur, open) ==
    IF open /\ cur # <<>> THEN Append(errs, join(cur, "\n")) ELSE errs

\* Mutant: a blank line closes a block of MinBlockLen lines already.
closes_block_early(line, cur) == is_empty(trim(line)) /\ Len(cur) >= MinBlockLen

\* A blank line closes the open block only when it is long enough.
closes_block(line, cur) == is_empty(trim(line)) /\ Len(cur) > MinBlockLen

\* One iteration of `for line in output.lines()`.
BuildLine(line) ==
    /\ cmd = "build" /\ pc = "loop"
    /\ output' = Append(output, line)
    /\ IF is_compiling(line)
       THEN /\ compiled' = compiled + 1
            /\ UNCHANGED <<errors, warnings, error_count, in_error, current_error>>
       ELSE IF is_progress(line)
       THEN UNCHANGED <<errors, warnings, error_count, compiled, in_error, current_error>>
       ELSE IF is_error_line(line)
       THEN IF is_error_summary(line)
            THEN UNCHANGED <<errors, warnings, error_count, compiled, in_error,
                             current_error>>
            ELSE /\ errors' = flush_open(errors, current_error, in_error)
                 /\ error_count' = error_count + 1
                 /\ in_error' = TRUE
                 /\ current_error' = <<line>>
                 /\ UNCHANGED <<warnings, compiled>>
       ELSE IF is_warning_summary(line)
       THEN UNCHANGED <<errors, warnings, error_count, compiled, in_error, current_error>>
       ELSE IF is_warning_line(line)
       THEN /\ errors' = flush_open(errors, current_error, in_error)
            /\ warnings' = warnings + 1
            /\ in_error' = TRUE
            /\ current_error' = <<line>>
            /\ UNCHANGED <<error_count, compiled>>
       ELSE IF in_error
       THEN IF closes_block(line, current_error)
            THEN /\ errors' = Append(errors, join(current_error, "\n"))
                 /\ current_error' = <<>>
                 /\ in_error' = FALSE
                 /\ UNCHANGED <<warnings, error_count, compiled>>
            ELSE /\ current_error' = Append(current_error, line)
                 /\ UNCHANGED <<errors, warnings, error_count, compiled, in_error>>
       ELSE UNCHANGED <<errors, warnings, error_count, compiled, in_error, current_error>>
    /\ UNCHANGED <<cmd, pc, result, testVars, clippyVars>>
    /\ UNCHANGED <<lsVars, runVars>>

\* Mutant: one block too many is shown.
RECURSIVE build_blocks_one_more(_, _)
build_blocks_one_more(errs, i) ==
    IF i > Len(errs) \/ i > MaxIssues + 1 THEN ""
    ELSE errs[i] \o "\n" \o (IF i - 1 < Len(errs) - 1 THEN "\n" ELSE "")
         \o build_blocks_one_more(errs, i + 1)

\* The blocks shown: each followed by a newline, and by a blank line unless it
\* is the last block collected.
RECURSIVE build_blocks(_, _)
build_blocks(errs, i) ==
    IF i > Len(errs) \/ i > MaxIssues THEN ""
    ELSE errs[i] \o "\n" \o (IF i - 1 < Len(errs) - 1 THEN "\n" ELSE "")
         \o build_blocks(errs, i + 1)

build_overflow(errs) ==
    IF Len(errs) > MaxIssues
    THEN "\n... +" \o ToString(Len(errs) - MaxIssues) \o " more issues\n"
    ELSE ""

build_success(c) == CHECK \o " cargo build (" \o ToString(c) \o " crates compiled)"

build_header(e, w, c) ==
    "cargo build: " \o ToString(e) \o " errors, " \o ToString(w) \o " warnings ("
        \o ToString(c) \o " crates)\n"

build_render(errs, e, w, c) ==
    IF e = 0 /\ w = 0 THEN build_success(c)
    ELSE trim(build_header(e, w, c) \o repeat(BAR, BarWidth) \o "\n"
              \o build_blocks(errs, 1) \o build_overflow(errs))

\* After the loop: the trailing open block is pushed and the summary rendered.
BuildFinish ==
    /\ cmd = "build" /\ pc = "loop"
    /\ LET all == IF current_error # <<>>
                  THEN Append(errors, join(current_error, "\n")) ELSE errors
       IN  /\ errors' = all
           /\ result' = build_render(all, error_count, warnings, compiled)
    /\ pc' = "done"
    /\ UNCHANGED <<cmd, output, warnings, error_count, compiled, in_error, current_error,
                   testVars, clippyVars>>
    /\ UNCHANGED <<lsVars, runVars>>

(***************************************************************************)
(* filter_cargo_test                                                       *)
(***************************************************************************)
\* Compilation lines: skipped.
is_build_banner(line) ==
    \/ starts_with(trim_start(line), "Compiling")
    \/ starts_with(trim_start(line), "Downloading")
    \/ starts_with(trim_start(line), "Downloaded")
    \/ starts_with(trim_start(line), "Finished")

\* "running N tests" and individual "test ... ok" lines: skipped.
is_test_noise(line) ==
    \/ starts_with(line, "running ")
    \/ starts_with(line, "test ") /\ ends_with(line, "... ok")

is_test_result(line) == starts_with(line, "test result:")

\* One iteration of `for line in output.lines()`.  The section flag and the
\* summary lines written by the `if in_failure_section` block are the ones the
\* "Capture test result summary" test after it reads.
TestLine(line) ==
    /\ cmd = "test" /\ pc = "loop"
    /\ output' = Append(output, line)
    /\ IF is_build_banner(line) \/ is_test_noise(line)
       THEN UNCHANGED testVars
       ELSE IF line = "failures:"
       THEN /\ in_failure_section' = TRUE
            /\ UNCHANGED <<failures, summary_lines, current_failure>>
       ELSE LET closes == in_failure_section /\ is_test_result(line)
                section == IF closes THEN FALSE ELSE in_failure_section
                summary == IF closes THEN Append(summary_lines, line) ELSE summary_lines
                detail == /\ in_failure_section /\ ~closes
                          /\ \/ starts_with(line, "    ") \/ starts_with(line, "---- ")
                             \/ ~is_empty(trim(line))
                flushes == /\ in_failure_section /\ ~closes
                           /\ ~(starts_with(line, "    ") \/ starts_with(line, "---- "))
                           /\ is_empty(trim(line)) /\ current_failure # <<>>
            IN  /\ in_failure_section' = section
                /\ current_failure' =
                       IF detail THEN Append(current_failure, line)
                       ELSE IF flushes THEN <<>> ELSE current_failure
                /\ failures' =
                       IF flushes THEN Append(failures, join(current_failure, "\n"))
                       ELSE failures
                /\ summary_lines' =
                       IF ~section /\ is_test_result(line) THEN Append(summary, line)
                       ELSE summary
    /\ UNCHANGED <<cmd, pc, result, buildVars, error_count, clippyVars>>
    /\ UNCHANGED <<lsVars, runVars>>

\* utils::truncate(s, max_len): at most max_len characters, cut text ends in "...".
truncate(s, max_len) ==
    IF Len(s) <= max_len THEN s
    ELSE IF max_len < 3 THEN "..."
    ELSE SubSeq(s, 1, max_len - 3) \o "..."

\* Mutant: the summary lines of a passing run are not marked.
RECURSIVE test_all_passed_unmarked(_)
test_all_passed_unmarked(summary) ==
    IF summary = <<>> THEN ""
    ELSE Head(summary) \o "\n" \o test_all_passed_unmarked(Tail(summary))

\* "All passed": every summary line with the success marker.
RECURSIVE test_all_passed(_)
test_all_passed(summary) ==
    IF summary = <<>> THEN ""
    ELSE CHECK \o " " \o Head(summary) \o "\n" \o test_all_passed(Tail(summary))

RECURSIVE test_failure_entries(_, _)
test_failure_entries(fails, i) ==
    IF i > Len(fails) \/ i > MaxFailures THEN ""
    ELSE ToString(i) \o ". " \o truncate(fails[i], FailureWidth) \o "\n"
         \o test_failure_entries(fails, i + 1)

test_failures_part(fails) ==
    IF fails = <<>> THEN ""
    ELSE "FAILURES (" \o ToString(Len(fails)) \o "):\n"
         \o repeat(BAR, BarWidth) \o "\n"
         \o test_failure_entries(fails, 1)
         \o (IF Len(fails) > MaxFailures
             THEN "\n... +" \o ToString(Len(fails) - MaxFailures) \o " more failures\n"
             ELSE "")
         \o "\n"

RECURSIVE test_plain_lines(_)
test_plain_lines(v) ==
    IF v = <<>> THEN "" ELSE Head(v) \o "\n" \o test_plain_lines(Tail(v))

is_meaningful(line) ==
    ~is_empty(trim(line)) /\ ~starts_with(trim_start(line), "Compiling")

\* Fallback: the last meaningful raw lines, in their order.
test_fallback(raw) ==
    LET meaningful == SelectSeq(raw, is_meaningful)
        n == Len(meaningful)
    IN  test_plain_lines(SubSeq(meaningful,
                                IF n > FallbackLines THEN n - FallbackLines + 1 ELSE 1, n))

test_render(fails, summary, raw) ==
    IF fails = <<>> /\ summary # <<>> THEN trim(test_all_passed(summary))
    ELSE LET shown == test_failures_part(fails) \o test_plain_lines(summary)
         IN  trim(IF is_empty(trim(shown)) THEN shown \o test_fallback(raw) ELSE shown)

\* After the loop: the open failure is pushed and the summary rendered.
TestFinish ==
    /\ cmd = "test" /\ pc = "loop"
    /\ LET all == IF current_failure # <<>>
                  THEN Append(failures, join(current_failure, "\n")) ELSE failures
       IN  /\ failures' = all
           /\ result' = test_render(all, summary_lines, output)
    /\ pc' = "done"
    /\ UNCHANGED <<cmd, output, summary_lines, in_failure_section, current_failure,
                   buildVars, error_count, clippyVars>>
    /\ UNCHANGED <<lsVars, runVars>>

(***************************************************************************)
(* filter_cargo_clippy                                                     *)
(***************************************************************************)
\* Compilation lines: skipped.
is_clippy_banner(line) ==
    \/ starts_with(trim_start(line), "Compiling")
    \/ starts_with(trim_start(line), "Checking")
    \/ starts_with(trim_start(line), "Downloading")
    \/ starts_with(trim_start(line), "Downloaded")
    \/ starts_with(trim_start(line), "Finished")

is_clippy_marker(line) ==
    \/ starts_with(line, "warning:") \/ starts_with(line, "warning[")
    \/ starts_with(line, "error:") \/ starts_with(line, "error[")

\* "warning: crate (bin) generated 5 warnings", "error: aborting",
\* "error: could not compile": skipped.
is_clippy_summary(line) ==
    \/ contains(line, "generated") /\ contains(line, "warning")
    \/ contains(line, "aborting due to") \/ contains(line, "could not compile")

strip_prefix_or(line, prefix) ==
    IF starts_with(line, prefix) THEN SubSeq(line, Len(prefix) + 1, Len(line)) ELSE line

\* line[bracket_start + 1..bracket_end] panics when the range starts after its end.
rule_slice_panics(line) ==
    rfind(line, "[") # 0 /\ rfind(line, "]") # 0 /\ rfind(line, "[") > rfind(line, "]")

\* The rule of an issue marker line: the text between the last "[" and the
\* last "]"; the line when only "[" is there; else the message.
extract_rule(line) ==
    LET bracket_start == rfind(line, "[")
        bracket_end == rfind(line, "]")
    IN  IF bracket_start # 0
        THEN IF bracket_end # 0
             THEN SubSeq(line, bracket_start + 1, bracket_end - 1)
             ELSE line
        ELSE strip_prefix_or(line, IF starts_with(line, "error") THEN "error: "
                                                                 ELSE "warning: ")

RECURSIVE trim_start_matches(_, _)
trim_start_matches(s, p) ==
    IF starts_with(s, p) THEN trim_start_matches(SubSeq(s, Len(p) + 1, Len(s)), p) ELSE s

is_location(line) == starts_with(trim_start(line), "--> ")

\* by_rule.entry(rule).or_default().push(location)
push_location(map, rule, location) ==
    IF rule \in DOMAIN map
    THEN [map EXCEPT ![rule] = Append(@, location)]
    ELSE [r \in DOMAIN map \cup {rule} |->
             IF r = rule THEN <<location>> ELSE map[r]]

\* One iteration of `for line in output.lines()`.
ClippyLine(line) ==
    /\ cmd = "clippy" /\ pc = "loop"
    /\ output' = Append(output, line)
    /\ IF is_clippy_banner(line)
       THEN UNCHANGED <<pc, error_count, clippyVars>>
       ELSE IF is_clippy_marker(line)
       THEN IF is_clippy_summary(line)
            THEN UNCHANGED <<pc, error_count, clippyVars>>
            ELSE /\ error_count' =
                        IF starts_with(line, "error") THEN error_count + 1 ELSE error_count
                 /\ warning_count' =
                        IF starts_with(line, "error") THEN warning_count
                        ELSE warning_count + 1
                 /\ IF rule_slice_panics(line)
                    THEN pc' = "panic" /\ UNCHANGED current_rule
                    ELSE current_rule' = extract_rule(line) /\ UNCHANGED pc
                 /\ UNCHANGED by_rule
       ELSE IF is_location(line)
       THEN /\ by_rule' =
                  IF ~is_empty(current_rule)
                  THEN push_location(by_rule, current_rule,
                                     trim_start_matches(trim_start(line), "--> "))
                  ELSE by_rule
            /\ UNCHANGED <<pc, error_count, warning_count, current_rule>>
       ELSE UNCHANGED <<pc, error_count, clippyVars>>
    /\ UNCHANGED <<cmd, result, buildVars, testVars>>
    /\ UNCHANGED <<lsVars, runVars>>

RECURSIVE set_to_seq(_)
set_to_seq(S) ==
    IF S = {} THEN <<>>
    ELSE LET x == CHOOSE y \in S : TRUE IN <<x>> \o set_to_seq(S \ {x})

reverse(v) == [i \in 1..Len(v) |-> v[Len(v) + 1 - i]]

\* The orders in which HashMap::iter may yield the rules: every order of a
\* map of at most MaxPermuted rules, two opposite orders of a larger one.
iter_orders(map) ==
    LET n == Cardinality(DOMAIN map)
    IN  IF n <= MaxPermuted
        THEN {o \in [1..n -> DOMAIN map] : \A i, j \in 1..n : i # j => o[i] # o[j]}
        ELSE {set_to_seq(DOMAIN map), reverse(set_to_seq(DOMAIN map))}

\* Mutant: the groups stay in iteration order.
insert_unsorted(map, sorted, rule) == Append(sorted, rule)

\* sort_by(|a, b| b.1.len().cmp(&a.1.len())): stable, larger groups first.
RECURSIVE insert_by_count(_, _, _)
insert_by_count(map, sorted, rule) ==
    IF sorted = <<>> THEN <<rule>>
    ELSE IF Len(map[Head(sorted)]) >= Len(map[rule])
         THEN <<Head(sorted)>> \o insert_by_count(map, Tail(sorted), rule)
         ELSE <<rule>> \o sorted

RECURSIVE sort_by_count(_, _)
sort_by_count(map, order) ==
    IF order = <<>> THEN <<>>
    ELSE insert_by_count(map, sort_by_count(map, SubSeq(order, 1, Len(order) - 1)),
                         order[Len(order)])

RECURSIVE clippy_locations(_, _)
clippy_locations(locations, i) ==
    IF i > Len(locations) \/ i > MaxLocations THEN ""
    ELSE "    " \o locations[i] \o "\n" \o clippy_locations(locations, i + 1)

clippy_group(rule, locations) ==
    "  " \o rule \o " (" \o ToString(Len(locations)) \o "x)\n"
    \o clippy_locations(locations, 1)
    \o (IF Len(locations) > MaxLocations
        THEN "    ... +" \o ToString(Len(locations) - MaxLocations) \o " more\n"
        ELSE "")

RECURSIVE clippy_groups(_, _, _)
clippy_groups(map, rule_counts, i) ==
    IF i > Len(rule_counts) \/ i > MaxRules THEN ""
    ELSE clippy_group(rule_counts[i], map[rule_counts[i]])
         \o clippy_groups(map, rule_counts, i + 1)

clippy_render(map, order, e, w) ==
    IF e = 0 /\ w = 0 THEN CHECK \o " cargo clippy: No issues found"
    ELSE trim("cargo clippy: " \o ToString(e) \o " errors, " \o ToString(w)
              \o " warnings\n"
              \o repeat(BAR, BarWidth) \o "\n"
              \o clippy_groups(map, sort_by_count(map, order), 1)
              \o (IF Cardinality(DOMAIN map) > MaxRules
                  THEN "\n... +" \o ToString(Cardinality(DOMAIN map) - MaxRules)
                       \o " more rules\n"
                  ELSE ""))

\* After the loop: the groups are sorted and the summary rendered.
ClippyFinish ==
    /\ cmd = "clippy" /\ pc = "loop"
    /\ \E order \in iter_orders(by_rule) :
           result' = clippy_render(by_rule, order, error_count, warning_count)
    /\ pc' = "done"
    /\ UNCHANGED <<cmd, output, error_count, buildVars, testVars, clippyVars>>
    /\ UNCHANGED <<lsVars, runVars>>

(***************************************************************************)
(* filter_ls_output (src/src/ls.rs)                                        *)
(***************************************************************************)
NOISE_DIRS ==
    << "node_modules", ".git", "target", "__pycache__", ".next", "dist", "build",
       ".cache", ".turbo", ".vercel", ".pytest_cache", ".mypy_cache", ".tox",
       ".venv", "venv", "env", ".env", "coverage", ".nyc_output", ".DS_Store",
       "Thumbs.db", ".idea", ".vscode", ".vs", "*.egg-info", ".eggs" >>

\* Mutant: only the first name of the denylist is looked for.
is_noise_first_only(line) ==
    LET trimmed == trim(line)
    IN  \/ ends_with(trimmed, NOISE_DIRS[1])
        \/ contains(trimmed, " " \o NOISE_DIRS[1])

\* NOISE_DIRS.iter().any(|noise| trimmed.ends_with(noise)
\*                               || trimmed.contains(&format!(" {}", noise)))
is_noise(line) ==
    LET trimmed == trim(line)
    IN  \E i \in DOMAIN NOISE_DIRS :
            \/ ends_with(trimmed, NOISE_DIRS[i])
            \/ contains(trimmed, " " \o NOISE_DIRS[i])

is_total(line) == starts_with(line, "total ")

\* One line of raw.lines() through the closure of filter().
LsLine(line) ==
    /\ cmd = "ls" /\ pc = "loop"
    /\ output' = Append(output, line)
    /\ ls_lines' =
           IF is_total(line) THEN ls_lines
           ELSE IF show_all THEN Append(ls_lines, line)
           ELSE IF ~is_noise(line) THEN Append(ls_lines, line)
           ELSE ls_lines
    /\ UNCHANGED <<cmd, pc, result, error_count, buildVars, testVars, clippyVars>>
    /\ UNCHANGED <<show_all, runVars>>

\* str::split_whitespace
RECURSIVE next_white(_, _)
next_white(s, i) ==
    IF i > Len(s) \/ is_whitespace(char_at(s, i)) THEN i ELSE next_white(s, i + 1)

RECURSIVE split_from(_, _)
split_from(s, i) ==
    IF i > Len(s) THEN <<>>
    ELSE IF is_whitespace(char_at(s, i)) THEN split_from(s, i + 1)
    ELSE <<SubSeq(s, i, next_white(s, i) - 1)>> \o split_from(s, next_white(s, i))

split_whitespace(s) == split_from(s, 1)

\* The lines generate_summary counts as directories and as regular files.
is_dir_entry(line) ==
    LET parts == split_whitespace(line)
    IN  parts # <<>> /\ starts_with(parts[1], "d")

is_file_entry(line) ==
    LET parts == split_whitespace(line)
    IN  /\ parts # <<>>
        /\ ~starts_with(parts[1], "d")
        /\ starts_with(parts[1], "-")
        /\ Len(parts) >= NameField

file_name(line) ==
    LET parts == split_whitespace(line)
    IN  join(SubSeq(parts, NameField, Len(parts)), " ")

extension(filename) ==
    LET pos == rfind(filename, ".")
    IN  IF pos # 0 THEN SubSeq(filename, pos, Len(filename)) ELSE "no ext"

\* *by_ext.entry(ext).or_insert(0) += 1
count_ext(map, ext) ==
    IF ext \in DOMAIN map THEN [map EXCEPT ![ext] = @ + 1]
    ELSE [e \in DOMAIN map \cup {ext} |-> IF e = ext THEN 1 ELSE map[e]]

RECURSIVE by_ext(_)
by_ext(entries) ==
    IF entries = <<>> THEN <<>>
    ELSE LET line == entries[Len(entries)]
             map == by_ext(SubSeq(entries, 1, Len(entries) - 1))
         IN  IF is_file_entry(line) THEN count_ext(map, extension(file_name(line)))
             ELSE map

total_files(entries) == Len(SelectSeq(entries, is_file_entry))

total_dirs(entries) == Len(SelectSeq(entries, is_dir_entry))

\* ext_counts.sort_by(|a, b| b.1.cmp(a.1)): stable, larger counts first.
RECURSIVE insert_by_value(_, _, _)
insert_by_value(map, sorted, ext) ==
    IF sorted = <<>> THEN <<ext>>
    ELSE IF map[Head(sorted)] >= map[ext]
         THEN <<Head(sorted)>> \o insert_by_value(map, Tail(sorted), ext)
         ELSE <<ext>> \o sorted

RECURSIVE sort_by_value(_, _)
sort_by_value(map, order) ==
    IF order = <<>> THEN <<>>
    ELSE insert_by_value(map, sort_by_value(map, SubSeq(order, 1, Len(order) - 1)),
                         order[Len(order)])

ext_parts(map, ext_counts) ==
    [i \in DOMAIN take(ext_counts, TopExtensions) |->
        ToString(map[ext_counts[i]]) \o " " \o ext_counts[i]]

\* generate_summary: "" when nothing was counted; order is the order in
\* which by_ext.iter() yields the extensions.
generate_summary(entries, order) ==
    LET map == by_ext(entries)
        ext_counts == sort_by_value(map, order)
    IN  IF total_files(entries) = 0 /\ total_dirs(entries) = 0 THEN ""
        ELSE CHART \o " " \o ToString(total_files(entries)) \o " files"
             \o (IF total_dirs(entries) > 0
                 THEN ", " \o ToString(total_dirs(entries)) \o " dirs" ELSE "")
             \o (IF ext_counts # <<>>
                 THEN " (" \o join(ext_parts(map, ext_counts), ", ")
                      \o (IF Len(ext_counts) > TopExtensions
                          THEN ", +" \o ToString(Len(ext_counts) - TopExtensions)
                               \o " more"
                          ELSE "")
                      \o ")"
                 ELSE "")

\* Mutant: the summary follows the listing without the blank line.
ls_render_no_blank(entries, order) ==
    IF entries = <<>> THEN "\n"
    ELSE LET summary == generate_summary(entries, order)
         IN  join(entries, "\n")
             \o (IF ~is_empty(summary) THEN "\n" \o summary ELSE "")
             \o "\n"

\* The text filter_ls_output returns for the retained lines.
ls_render(entries, order) ==
    IF entries = <<>> THEN "\n"
    ELSE LET summary == generate_summary(entries, order)
         IN  join(entries, "\n")
             \o (IF ~is_empty(summary) THEN "\n\n" \o summary ELSE "")
             \o "\n"

\* After the filter: the retained lines are joined and summarised.
LsFinish ==
    /\ cmd = "ls" /\ pc = "loop"
    /\ \E order \in iter_orders(by_ext(ls_lines)) :
           result' = ls_render(ls_lines, order)
    /\ pc' = "done"
    /\ UNCHANGED <<cmd, output, error_count, buildVars, testVars, clippyVars>>
    /\ UNCHANGED <<lsVars, runVars>>

(***************************************************************************)
(* The wrappers: run_build, run_test, run_clippy (src/src/cargo_cmd.rs)    *)
(* and ls::run (src/src/ls.rs).                                            *)
(***************************************************************************)
\* args.iter().any(|a| a == "-a" || a == "--all")
show_all_of(a) == \E i \in DOMAIN a : a[i] = "-a" \/ a[i] = "--all"

\* The exit codes a tool ends with.
ExitCodes == {0, 1, 2}

\* ExitStatus::success
success(st, c) == st = "exited" /\ c = 0

\* output.status.code().unwrap_or(1): a tool ended by a signal has no code.
exit_value(st, c) == IF st = "exited" THEN c ELSE 1

\* eprintln!("Running: cargo build {}", args.join(" ")) of a verbose cargo
\* wrapper, before the tool is run.
running(tool, a) == "Running: cargo " \o tool \o " " \o join(a, " ")

echo(tool, v, a, err) ==
    IF v > 0 /\ tool # "ls" THEN Append(err, running(tool, a)) ELSE err

\* cmd.output().context(..)? fails: the wrapper returns the error.
SpawnFails ==
    /\ pc = "spawn"
    /\ pc' = "failed"
    /\ show_all' = (cmd = "ls" /\ show_all_of(args))
    /\ stderr' = echo(cmd, verbose, args, stderr)
    /\ UNCHANGED <<cmd, output, result, error_count, buildVars, testVars, clippyVars>>
    /\ UNCHANGED <<ls_lines, args, status, code, stdout, tracked, exit_code, verbose>>

\* cmd.output() returns: the tool has run and ended with some status.  ls::run
\* prints the error text of a failed ls and exits with its code at once.
Spawn ==
    /\ pc = "spawn"
    /\ show_all' = (cmd = "ls" /\ show_all_of(args))
    /\ \E st \in {"exited", "signaled"} : \E c \in ExitCodes :
           /\ st = "signaled" => c = 0
           /\ status' = st /\ code' = c
           /\ IF cmd = "ls" /\ ~success(st, c)
              THEN /\ pc' = "exited" /\ exit_code' = <<exit_value(st, c)>>
                   /\ stderr' = Append(stderr, LsError)
              ELSE /\ pc' = "loop" /\ UNCHANGED exit_code
                   /\ stderr' = echo(cmd, verbose, args, stderr)
    /\ UNCHANGED <<cmd, output, result, error_count, buildVars, testVars, clippyVars>>
    /\ UNCHANGED <<ls_lines, args, stdout, tracked, verbose>>

\* 100 - (filtered * 100 / raw) in usize arithmetic: the subtraction
\* underflows when the filtered text has more lines than the raw text.
underflows(raw_count, filtered_count) ==
    raw_count > 0 /\ (filtered_count * 100) \div raw_count > 100

reduction(raw_count, filtered_count) ==
    IF raw_count > 0 THEN 100 - ((filtered_count * 100) \div raw_count) ELSE 0

\* The decimal text of 2^64 - k, the value a wrapping subtraction leaves
\* in a 64-bit usize, for 0 < k <= WrapTail.
wrapped(k) == WrapHead \o ToString(WrapTail - k)

\* "Lines: {} -> {} ({}% reduction)"
report(raw_count, filtered_count, percent) ==
    "Lines: " \o ToString(raw_count) \o " " \o ARROW \o " "
        \o ToString(filtered_count) \o " (" \o percent \o "% reduction)"

\* The output step.  A verbose ls::run first reports the reduction: when the
\* subtraction underflows a build with overflow checks panics, a build
\* without them reports the wrapped value.  Then the filtered text is
\* written: println! in the cargo wrappers, print! in ls::run.
Emit ==
    /\ pc = "done"
    /\ LET raw_count == Len(output)
           filtered_count == Len(lines(result))
           text == IF cmd = "ls" THEN result ELSE result \o "\n"
       IN  IF cmd = "ls" /\ verbose > 0
           THEN IF underflows(raw_count, filtered_count)
                THEN \/ pc' = "panic" /\ UNCHANGED <<stdout, stderr>>
                     \/ /\ stderr' = Append(stderr,
                               report(raw_count, filtered_count,
                                      wrapped(-reduction(raw_count, filtered_count))))
                        /\ stdout' = Append(stdout, text)
                        /\ pc' = "printed"
                ELSE /\ stderr' = Append(stderr,
                            report(raw_count, filtered_count,
                                   ToString(reduction(raw_count, filtered_count))))
                     /\ stdout' = Append(stdout, text)
                     /\ pc' = "printed"
           ELSE /\ stdout' = Append(stdout, text)
                /\ pc' = "printed"
                /\ UNCHANGED stderr
    /\ UNCHANGED <<cmd, output, result, error_count, buildVars, testVars, clippyVars>>
    /\ UNCHANGED <<lsVars, args, status, code, tracked, exit_code, verbose>>

\* tracking::track(.., &raw, &filtered) / timer.track(.., &raw, &filtered)
Track ==
    /\ pc = "printed"
    /\ tracked' = Append(tracked, <<join(output, "\n"), result>>)
    /\ pc' = "tracked"
    /\ UNCHANGED <<cmd, output, result, error_count, buildVars, testVars, clippyVars>>
    /\ UNCHANGED <<lsVars, args, status, code, stdout, exit_code, verbose, stderr>>

\* The end of a wrapper: run_test always exits with the code of the tool,
\* run_build and run_clippy when the tool failed; otherwise Ok(()) is returned.
Exit ==
    /\ pc = "tracked"
    /\ IF cmd = "test" \/ (cmd \in {"build", "clippy"} /\ ~success(status, code))
       THEN pc' = "exited" /\ exit_code' = <<exit_value(status, code)>>
       ELSE pc' = "returned" /\ UNCHANGED exit_code
    /\ UNCHANGED <<cmd, output, result, error_count, buildVars, testVars, clippyVars>>
    /\ UNCHANGED <<lsVars, args, status, code, stdout, tracked, verbose, stderr>>

(***************************************************************************)
(* Raw build outputs.                                                      *)
(***************************************************************************)
BuildLines ==
    { "   Compiling rtk v0.5.0",
      " Downloading crates ...",
      "  Downloaded libc v0.2.153",
      "    Finished dev in 15.23s",
      "error[E0308]: mismatch",
      "error: aborting due to 1 error",
      "error: could not compile 'rtk'",
      "warning: unused variable: 'x'",
      "warning: 'rtk' generated 2 warnings",
      "warning: unused variable: 'generated'",
      " --> src/main.rs:10:5",
      "" }

BlockLines ==
    { "error[E0308]: mismatch",
      "warning: unused variable: 'x'",
      " --> src/main.rs:10:5",
      "  ",
      "" }

DefaultLine == "error[E0308]: mismatch"

OddLines ==
    { "warning: unused variable: 'x'",
      " --> src/main.rs:10:5",
      "" }

Odd(raw) == Cardinality({i \in DOMAIN raw : raw[i] # DefaultLine})

\* The locals of a filter when it is entered.
Locals ==
    /\ output = <<>>
    /\ result = ""
    /\ errors = <<>> /\ warnings = 0 /\ error_count = 0 /\ compiled = 0
    /\ in_error = FALSE /\ current_error = <<>>
    /\ failures = <<>> /\ summary_lines = <<>>
    /\ in_failure_section = FALSE /\ current_failure = <<>>
    /\ by_rule = <<>> /\ warning_count = 0 /\ current_rule = ""
    /\ ls_lines = <<>>

\* Nothing of a wrapper has happened.
Idle ==
    /\ status = "unset" /\ code = 0
    /\ stdout = <<>> /\ tracked = <<>> /\ exit_code = <<>>
    /\ stderr = <<>>

\* A filter is called on a raw text.
Init == pc = "loop" /\ Locals /\ Idle /\ args = <<>> /\ show_all = FALSE
        /\ verbose = 0

InitBuild == Init /\ cmd = "build"

BuildRead == \E line \in BuildLines : Len(output) < MaxBuildLines /\ BuildLine(line)

NextBuild == BuildRead \/ BuildFinish

SpecBuild == InitBuild /\ [][NextBuild]_vars

BlockRead == \E line \in BlockLines : Len(output) < MaxBlockLines /\ BuildLine(line)

NextBlocks == BlockRead \/ BuildFinish

SpecBuildBlocks == InitBuild /\ [][NextBlocks]_vars

LongRead ==
    \E line \in OddLines \cup {DefaultLine} :
        /\ Len(output) < MaxLongLines
        /\ line # DefaultLine => Odd(output) < MaxOdd
        /\ BuildLine(line)

NextLong == LongRead \/ BuildFinish

SpecBuildLong == InitBuild /\ [][NextLong]_vars

(***************************************************************************)
(* Raw test outputs.                                                       *)
(***************************************************************************)
TestLines ==
    { "   Compiling rtk v0.5.0",
      "    Finished test in 2.53s",
      "     Running target/rtk-abc123",
      "running 15 tests",
      "test a ... ok",
      "test b ... FAILED",
      "",
      "failures:",
      "---- b stdout ----",
      "thread 'b' panicked",
      "    b",
      "test result: ok. 15 passed; 0 failed",
      "test result: FAILED. 4 passed; 1 failed" }

InitTest == Init /\ cmd = "test"

TestRead == \E line \in TestLines : Len(output) < MaxTestLines /\ TestLine(line)

NextTest == TestRead \/ TestFinish

SpecTest == InitTest /\ [][NextTest]_vars

\* The output of a cargo test run in which tests fail, as libtest prints it:
\*   running N tests / one line per test / blank / "failures:" / blank /
\*   per failed test: "---- name stdout ----", the panic message, blank /
\*   an optional second blank / "failures:" / the failed names, indented /
\*   blank / "test result: FAILED. ..."
is_failed_test(line) == starts_with(line, "test ") /\ ends_with(line, "... FAILED")
is_passed_test(line) == starts_with(line, "test ") /\ ends_with(line, "... ok")
is_failure_header(line) == starts_with(line, "---- ")
is_failures_marker(line) == line = "failures:"
is_failed_name(line) == starts_with(line, "    t")

test_name(k) == "t" \o ToString(k)

run_next(raw) ==
    LET last == raw[Len(raw)]
        nfail == Len(SelectSeq(raw, is_failed_test))
        nsec == Len(SelectSeq(raw, is_failures_marker))
        nhead == Len(SelectSeq(raw, is_failure_header))
        nname == Len(SelectSeq(raw, is_failed_name))
    IN  IF raw = <<>> THEN {"running 12 tests"}
        ELSE IF nsec = 0
        THEN IF last = "" THEN {"failures:"}
             ELSE (IF nfail < MaxFailing
                   THEN {"test " \o test_name(nfail + 1) \o " ... FAILED"} ELSE {})
                  \cup (IF Len(SelectSeq(raw, is_passed_test)) = 0 THEN {"test a ... ok"} ELSE {})
                  \cup (IF nfail > 0 THEN {""} ELSE {})
        ELSE IF nsec = 1
        THEN IF last = "failures:" THEN {""}
             ELSE IF is_failure_header(last)
             THEN {"thread '" \o test_name(nhead) \o "' panicked"}
             ELSE IF starts_with(last, "thread ")
             THEN {""} \cup (IF nhead = 1 THEN {"note: run with RUST_BACKTRACE=1"} ELSE {})
             ELSE IF starts_with(last, "note:") THEN {""}
             ELSE IF nhead < nfail
             THEN {"---- " \o test_name(nhead + 1) \o " stdout ----"}
             ELSE {"failures:"} \cup (IF raw[Len(raw) - 1] # "" THEN {""} ELSE {})
        ELSE IF nname < nfail THEN {"    " \o test_name(nname + 1)}
        ELSE IF is_failed_name(last) THEN {""}
        ELSE IF last = "" THEN {"test result: FAILED. " \o ToString(nfail) \o " failed"}
        ELSE {}

run_complete(raw) == raw # <<>> /\ is_test_result(raw[Len(raw)])

RunRead == \E line \in run_next(output) : TestLine(line)

RunFinish == run_complete(output) /\ TestFinish

NextTestRun == RunRead \/ RunFinish

SpecTestRun == InitTest /\ [][NextTestRun]_vars

(***************************************************************************)
(* Raw lint outputs.                                                       *)
(***************************************************************************)
ClippyLines ==
    { "    Checking rtk v0.5.0",
      "warning: unused variable [unused_variables]",
      "warning: too many [clippy::too_many_arguments]",
      "error[E0308]: mismatch",
      "error: cannot find value",
      "error: expected ']', found '['",
      "warning: unclosed [",
      "warning: stray ]",
      "warning: 'rtk' generated 2 warnings",
      "error: aborting due to 1 error",
      " --> src/main.rs:10:9",
      " --> src/git.rs:16:1",
      "" }

InitClippy == Init /\ cmd = "clippy"

ClippyRead == \E line \in ClippyLines : Len(output) < MaxClippyLines /\ ClippyLine(line)

NextClippy == ClippyRead \/ ClippyFinish

SpecClippy == InitClippy /\ [][NextClippy]_vars

\* A long lint output: every issue is a marker of a new rule followed by its
\* location; up to MaxLocations more locations follow some of the issues.
lint_rule(k) == "r" \o ToString(k)

lint_marker(k) == "warning: m [" \o lint_rule(k) \o "]"

lint_location(n) == " --> a.rs:" \o ToString(n)

lint_next(raw) ==
    LET nrules == Len(SelectSeq(raw, is_clippy_marker))
        nloc == Len(SelectSeq(raw, is_location))
    IN  IF raw = <<>> THEN {lint_marker(1)}
        ELSE IF is_clippy_marker(raw[Len(raw)]) THEN {lint_location(nloc + 1)}
        ELSE (IF nrules < MaxLintRules THEN {lint_marker(nrules + 1)} ELSE {})
             \cup (IF nloc - nrules < MaxLocations THEN {lint_location(nloc + 1)}
                   ELSE {})

LintRead == \E line \in lint_next(output) : ClippyLine(line)

NextClippyLong == LintRead \/ ClippyFinish

SpecClippyLong == InitClippy /\ [][NextClippyLong]_vars

(***************************************************************************)
(* Raw directory listings.                                                 *)
(***************************************************************************)
LsLines ==
    { "total 48",
      "drwxr-xr-x 2 u g 64 Jan 1 12:00 node_modules",
      "drwxr-xr-x  2 u g 64 Jan  1 12:00 src",
      "-rw-r--r--  1 u g 1234 Jan  1 12:00 main.rs",
      "-rw-r--r-- 1 u g 12 Jan 1 12:00 build.rs",
      "drwxr-xr-x 2 u g 64 Jan 1 12:00 myenv",
      "drwxr-xr-x 2 u env 64 Jan 1 12:00 docs",
      "src",
      "dist  ",
      "total recall.txt",
      "" }

InitLs == cmd = "ls" /\ pc = "loop" /\ Locals /\ Idle /\ args = <<>>
          /\ show_all \in BOOLEAN /\ verbose = 0

LsRead == \E line \in LsLines : Len(output) < MaxLsLines /\ LsLine(line)

NextLs == LsRead \/ LsFinish

SpecLs == InitLs /\ [][NextLs]_vars

\* A long listing: regular files, each with an extension of its own, and up
\* to MaxOddEntries other lines: one more file of the latest extension, a
\* file without a dot, a directory, a symbolic link, and a regular file in
\* the eight-field format of ls -l --time-style=long-iso.
entry_line(name) == "-rw-r--r-- 1 u g 12 Jan 1 12:00 " \o name

OtherEntries ==
    { entry_line("Makefile"),
      "drwxr-xr-x 2 u g 64 Jan 1 12:00 src",
      "lrwxrwxrwx 1 u g 3 Jan 1 12:00 link -> src",
      "-rw-r--r-- 1 u g 12 2024-01-01 12:00 main.rs" }

is_other_entry(line) == line \in OtherEntries \/ starts_with(file_name(line), "g")

listing_next(raw) ==
    LET nodd == Len(SelectSeq(raw, is_other_entry))
        next == Len(raw) - nodd + 1
    IN  (IF next <= MaxExtensions
         THEN {entry_line("f" \o ToString(next) \o ".e" \o ToString(next))} ELSE {})
        \cup (IF nodd < MaxOddEntries
              THEN OtherEntries
                   \cup (IF next > 1
                         THEN {entry_line("g" \o ToString(Len(raw)) \o ".e"
                                          \o ToString(next - 1))}
                         ELSE {})
              ELSE {})

ListingRead == \E line \in listing_next(output) : LsLine(line)

NextLsLong == ListingRead \/ LsFinish

SpecLsLong == InitLs /\ [][NextLsLong]_vars

(***************************************************************************)
(* Runs of the wrappers.                                                   *)
(***************************************************************************)
ArgLists ==
    { <<>>, <<"-a">>, <<"--all">>, <<"-la">>, <<"-al">>, <<"-l">>, <<"-l", "src">> }

ToolLines(tool) ==
    IF tool = "build"
    THEN {"   Compiling rtk v0.5.0", "error[E0308]: mismatch", ""}
    ELSE IF tool = "test"
    THEN {"test a ... FAILED", "test result: ok. 1 passed", ""}
    ELSE IF tool = "clippy"
    THEN {"warning: unused variable [unused_variables]", " --> src/main.rs:10:9",
          "error: expected ']', found '['"}
    ELSE {"total 48", "drwxr-xr-x 2 u g 64 Jan 1 12:00 node_modules",
          "-rw-r--r--  1 u g 1234 Jan  1 12:00 main.rs"}

InitRun ==
    /\ cmd \in {"build", "test", "clippy", "ls"}
    /\ pc = "spawn" /\ Locals /\ Idle /\ show_all = FALSE
    /\ args \in (IF cmd = "ls" THEN ArgLists ELSE {<<>>})
    /\ verbose \in {0, 1}

ToolRead ==
    \E line \in ToolLines(cmd) :
        /\ Len(output) < MaxRunLines
        /\ BuildLine(line) \/ TestLine(line) \/ ClippyLine(line) \/ LsLine(line)

ToolFinish == BuildFinish \/ TestFinish \/ ClippyFinish \/ LsFinish

NextRun == SpawnFails \/ Spawn \/ ToolRead \/ ToolFinish \/ Emit \/ Track \/ Exit

SpecRun == InitRun /\ [][NextRun]_vars

(***************************************************************************)
(* Claims about filter_cargo_build.                                        *)
(***************************************************************************)
has_marker_prefix(line) ==
    \/ starts_with(line, "error:") \/ starts_with(line, "error[")
    \/ starts_with(line, "warning:") \/ starts_with(line, "warning[")

\* The aggregate lines cargo itself prints: "generated N warnings",
\* "aborting due to N errors", "could not compile".
aggregate_summary(line) ==
    \/ contains(line, "aborting due to")
    \/ contains(line, "could not compile")
    \/ \E n \in 1..9 : contains(line, "generated " \o ToString(n) \o " warning")

real_diagnostic(line) == has_marker_prefix(line) /\ ~aggregate_summary(line)
real_error(line) == real_diagnostic(line) /\ starts_with(line, "error")
real_warning(line) == real_diagnostic(line) /\ starts_with(line, "warning")

first_line(text) == lines(text)[1]

first_lines(blocks) == [i \in DOMAIN blocks |-> first_line(blocks[i])]

\* C1: filter_cargo_build never hides a diagnostic: every raw line that begins
\* with error:, error[, warning: or warning[ and is not an aggregate summary
\* line of cargo is counted in the matching counter and is the first line of
\* exactly one issue block.
C1_NoDiagnosticHidden ==
    (cmd = "build" /\ pc = "done") =>
        /\ error_count >= Len(SelectSeq(output, real_error))
        /\ warnings >= Len(SelectSeq(output, real_warning))
        /\ SelectSeq(first_lines(errors), real_diagnostic)
               = SelectSeq(output, real_diagnostic)

is_overflow_line(line) == starts_with(line, "... +")

\* C2: with N issue blocks (N > 0) the output shows the first min(N, 15) blocks
\* in first-seen order, and the line "... +K more issues" if and only if
\* N > 15, with K = N - 15.
C2_BlocksShown ==
    LET marks == SelectSeq(output, issue_marker)
        N == Len(marks)
        out == lines(result)
    IN  (cmd = "build" /\ pc = "done" /\ N > 0) =>
            /\ Len(errors) = N
            /\ SelectSeq(out, has_marker_prefix) = take(marks, 15)
            /\ SelectSeq(out, is_overflow_line) =
                   IF N > 15 THEN <<"... +" \o ToString(N - 15) \o " more issues">>
                   ELSE <<>>

\* C2 witness: sixteen blocks, a warning among them, rendered with the overflow line.
C2_Witness ==
    /\ cmd = "build" /\ pc = "done"
    /\ Len(errors) = 16 /\ warnings >= 1
    /\ Len(SelectSeq(lines(result), is_overflow_line)) = 1

is_compiling_line(line) == starts_with(trim_start(line), "Compiling")

\* C3: with no issue marker in the input the output is exactly the success
\* line with the number of "Compiling" lines of the input.
C3_SuccessLine ==
    (cmd = "build" /\ pc = "done" /\ Len(SelectSeq(output, issue_marker)) = 0) =>
        /\ result = CHECK \o " cargo build ("
                      \o ToString(Len(SelectSeq(output, is_compiling_line)))
                      \o " crates compiled)"
        /\ Len(lines(result)) = 1

\* C3 witness: two Compiling lines, a download line and an aggregate summary
\* line, and no issue.
C3_Witness ==
    /\ cmd = "build" /\ pc = "done"
    /\ Len(SelectSeq(output, issue_marker)) = 0
    /\ Len(SelectSeq(output, is_compiling_line)) = 2
    /\ \E i \in DOMAIN output : starts_with(trim_start(output[i]), "Download")
    /\ \E i \in DOMAIN output : aggregate_summary(output[i])

open_blocks == IF current_error # <<>> THEN 1 ELSE 0

\* C4: after every processed line error_count + warnings is the number of
\* closed blocks plus one for a non-empty open block; at the end the totals of
\* the header sum to the number of blocks collected.
C4_CountersMatchBlocks ==
    cmd = "build" =>
        /\ pc = "loop" => error_count + warnings = Len(errors) + open_blocks
        /\ pc = "done" =>
              /\ error_count + warnings = Len(errors)
              /\ Len(errors) > 0 =>
                    starts_with(result, "cargo build: " \o ToString(error_count)
                        \o " errors, " \o ToString(warnings) \o " warnings (")

\* C4 witness: a block closed by a blank line, a second block open after it.
C4_Witness ==
    /\ cmd = "build" /\ pc = "loop"
    /\ Len(errors) = 1 /\ current_error # <<>>
    /\ \E i \in DOMAIN output :
          /\ i > MinBlockLen + 1 /\ is_empty(trim(output[i]))
          /\ \A j \in 1..(i - 1) : j > 1 => ~issue_marker(output[j])

is_blank(line) == is_empty(trim(line))

\* C20: the block state machine of the build classifier follows the boundary
\* rules at every step: while a block is open a blank line closes and flushes
\* it only if the block holds more than 3 lines, otherwise the blank line is
\* appended and the block stays open; a new issue marker flushes the open
\* block before it starts its own; while no block is open a line that is not
\* a marker is dropped; a block still open at the end of the input is flushed.
C20_BlockMachine ==
    [][cmd = "build" =>
        /\ (pc = "loop" /\ pc' = "loop") =>
              LET line == output'[Len(output')]
                  flushed == Append(errors, join(current_error, "\n"))
              IN  /\ (in_error /\ is_blank(line) /\ Len(current_error) > 3) =>
                         errors' = flushed /\ current_error' = <<>> /\ ~in_error'
                  /\ (in_error /\ is_blank(line) /\ Len(current_error) <= 3) =>
                         /\ errors' = errors /\ in_error'
                         /\ current_error' = Append(current_error, line)
                  /\ issue_marker(line) =>
                         /\ errors' = (IF in_error THEN flushed ELSE errors)
                         /\ current_error' = <<line>> /\ in_error'
                  /\ (~in_error /\ ~issue_marker(line)) =>
                         errors' = errors /\ current_error' = <<>> /\ ~in_error'
        /\ (pc = "loop" /\ pc' = "done") =>
              /\ errors' = (IF in_error
                            THEN Append(errors, join(current_error, "\n")) ELSE errors)
              /\ in_error => contains(result', trim(join(current_error, "\n")))
      ]_vars

\* C20 witness: a blank line was appended to a short block, the next blank
\* line closed the block, the line after it was dropped.
C20_Witness ==
    /\ cmd = "build" /\ pc = "loop"
    /\ Len(output) = 6 /\ ~issue_marker(output[6]) /\ ~is_blank(output[6])
    /\ is_blank(output[5]) /\ is_blank(output[3])
    /\ Len(errors) = 1 /\ Len(lines(errors[1])) = 4
    /\ ~in_error /\ current_error = <<>>

(***************************************************************************)
(* Claims about filter_cargo_test.                                         *)
(***************************************************************************)
has_test_result(line) == contains(line, "test result:")

\* C5: every "test result:" line of the raw input is captured as a summary
\* line exactly once, inside or outside a failure section: as many summary
\* lines are collected and rendered as the input has "test result:" lines.
C5_SummaryOnce ==
    (cmd = "test" /\ pc = "done") =>
        /\ summary_lines = SelectSeq(output, is_test_result)
        /\ Len(SelectSeq(lines(result), has_test_result)) = Len(SelectSeq(output, is_test_result))

is_entry(line) == \E k \in 1..(MaxFailing + 1) : starts_with(line, ToString(k) \o ". ")

is_more_failures(line) == starts_with(line, "... +") /\ ends_with(line, " more failures")

Smaller(a, b) == IF a < b THEN a ELSE b

\* C6: for a test run in which F tests fail (F > 0) the output has the header
\* "FAILURES (F)", then min(F, 10) entries numbered from 1 in first-seen order,
\* the note "+K more failures" with K = F - 10 if and only if F > 10, and the
\* summary lines after the failures.
C6_FailuresListed ==
    LET F == Len(SelectSeq(output, is_failure_header))
        heads == SelectSeq(output, is_failure_header)
        out == lines(result)
        entries == SelectSeq(out, is_entry)
    IN  (cmd = "test" /\ pc = "done" /\ F > 0) =>
            /\ out[1] = "FAILURES (" \o ToString(F) \o "):"
            /\ Len(entries) = Smaller(F, MaxFailures)
            /\ \A i \in DOMAIN entries : entries[i] = ToString(i) \o ". " \o heads[i]
            /\ SelectSeq(out, is_more_failures) =
                   IF F > MaxFailures
                   THEN <<"... +" \o ToString(F - MaxFailures) \o " more failures">>
                   ELSE <<>>
            /\ out[Len(out)] = output[Len(output)]

\* A run in which every test passes: no failure section, no failed test, and
\* the "test result:" line libtest ends every run with.
passing_run(raw) ==
    /\ \A i \in DOMAIN raw : raw[i] # "failures:" /\ ~contains(raw[i], "FAILED")
    /\ \E i \in DOMAIN raw : is_test_result(raw[i])

marked(line) == CHECK \o " " \o line

\* C7: for a test output with only passing tests no output line contains an
\* individual test line, and the output lines are the "test result:" lines of
\* the input, each with the success marker in front.
C7_PassingRun ==
    LET out == lines(result)
        results == SelectSeq(output, is_test_result)
    IN  (cmd = "test" /\ pc = "done" /\ passing_run(output)) =>
            /\ \A i \in DOMAIN out : \A j \in DOMAIN output :
                   is_passed_test(output[j]) => ~contains(out[i], output[j])
            /\ Len(out) = Len(results)
            /\ \A i \in DOMAIN out : out[i] = marked(results[i])

\* C7 witness: a passing run with a Compiling line and a passed test line.
C7_Witness ==
    /\ cmd = "test" /\ pc = "done" /\ passing_run(output)
    /\ \E j \in DOMAIN output : is_passed_test(output[j])
    /\ \E j \in DOMAIN output : is_build_banner(output[j])
    /\ Len(lines(result)) >= 1

\* C8: filter_cargo_test never returns an empty summary, whatever the raw
\* input (of at least one line: run_test joins stdout and stderr with "\n").
C8_NeverEmpty ==
    (cmd = "test" /\ pc = "done" /\ output # <<>>) => ~is_empty(result)

(***************************************************************************)
(* Claims about filter_cargo_clippy.                                       *)
(***************************************************************************)
\* C9: filter_cargo_clippy returns a summary for every raw input: extracting
\* the rule of an issue marker line never panics.
C9_NoPanic == cmd = "clippy" => pc # "panic"

RECURSIVE occurrences(_, _)
occurrences(map, rules) ==
    IF rules = {} THEN 0
    ELSE LET r == CHOOSE r \in rules : TRUE
         IN  Len(map[r]) + occurrences(map, rules \ {r})

\* C10: the occurrence counts of all rule groups sum to error_count +
\* warning_count, the totals of the header.
C10_OccurrencesMatchHeader ==
    (cmd = "clippy" /\ pc = "done") =>
        occurrences(by_rule, DOMAIN by_rule) = error_count + warning_count

is_group_line(line) == starts_with(line, "  ") /\ ~starts_with(line, "   ")

group_header(rule) ==
    "  " \o rule \o " (" \o ToString(Len(by_rule[rule])) \o "x)"

rule_of(line) == CHOOSE rule \in DOMAIN by_rule : line = group_header(rule)

more_rules_line(k) == "... +" \o ToString(k) \o " more rules"

more_locations_line(m) == "    ... +" \o ToString(m) \o " more"

\* The lines of the summary that follow the group line at position p show
\* the first MaxLocations locations of the rule in the order they were seen,
\* then '+M more' exactly when the rule has more than MaxLocations locations.
group_body_ok(out, p) ==
    LET locations == by_rule[rule_of(out[p])]
        shown == IF Len(locations) < MaxLocations THEN Len(locations) ELSE MaxLocations
        after == p + shown + 1
    IN  /\ p + shown <= Len(out)
        /\ \A j \in 1..shown : out[p + j] = "    " \o locations[j]
        /\ IF Len(locations) > MaxLocations
           THEN /\ after <= Len(out)
                /\ out[after] = more_locations_line(Len(locations) - MaxLocations)
                /\ after + 1 <= Len(out) => ~starts_with(out[after + 1], "    ")
           ELSE after <= Len(out) => ~starts_with(out[after], "    ")

\* C11: in the lint summary the rule groups appear in non-increasing order
\* of their count; at most MaxRules groups are printed, the largest ones,
\* followed by '+K more rules' with K the number of groups beyond MaxRules
\* exactly when there are more; each printed group shows its count, its first
\* MaxLocations locations in first-seen order and '+M more' exactly when it
\* has more than MaxLocations locations.
C11_GroupsRendered ==
    (cmd = "clippy" /\ pc = "done" /\ error_count + warning_count > 0) =>
        LET out == lines(result)
            n == Cardinality(DOMAIN by_rule)
            gpos == {p \in DOMAIN out : is_group_line(out[p])}
            groups == SelectSeq(out, is_group_line)
        IN  /\ Len(groups) = (IF n < MaxRules THEN n ELSE MaxRules)
            /\ \A i \in DOMAIN groups :
                    \E rule \in DOMAIN by_rule : groups[i] = group_header(rule)
            /\ LET shown == [i \in DOMAIN groups |-> rule_of(groups[i])]
                   count == [i \in DOMAIN groups |-> Len(by_rule[shown[i]])]
                   hidden == DOMAIN by_rule \ {shown[i] : i \in DOMAIN groups}
               IN  /\ \A i, j \in DOMAIN groups : i < j =>
                           shown[i] # shown[j] /\ count[i] >= count[j]
                   /\ \A rule \in hidden : \A i \in DOMAIN groups :
                           Len(by_rule[rule]) <= count[i]
            /\ \A p \in gpos : group_body_ok(out, p)
            /\ IF n > MaxRules
               THEN /\ out[Len(out)] = more_rules_line(n - MaxRules)
                    /\ \A p \in DOMAIN out :
                           contains(out[p], "more rules") => p = Len(out)
               ELSE \A p \in DOMAIN out : ~contains(out[p], "more rules")

C11_Witness ==
    /\ cmd = "clippy" /\ pc = "done"
    /\ Cardinality(DOMAIN by_rule) > MaxRules
    /\ \E p \in DOMAIN lines(result) :
           /\ lines(result)[p] = more_locations_line(1)
           /\ lines(result)[p - 4] = "  r3 (4x)"
           /\ p - 4 = 3
    /\ \E p \in DOMAIN lines(result) : lines(result)[p] = "  r2 (1x)"

\* The rules of a lint output in the order in which each gets its first
\* location; cur is the rule of the last issue marker read.
RECURSIVE first_seen(_, _, _, _)
first_seen(raw, i, cur, seen) ==
    IF i > Len(raw) THEN seen
    ELSE LET line == raw[i]
         IN  IF is_clippy_banner(line) THEN first_seen(raw, i + 1, cur, seen)
             ELSE IF is_clippy_marker(line)
             THEN IF is_clippy_summary(line) THEN first_seen(raw, i + 1, cur, seen)
                  ELSE IF rule_slice_panics(line) THEN seen
                  ELSE first_seen(raw, i + 1, extract_rule(line), seen)
             ELSE IF is_location(line) /\ ~is_empty(cur)
                     /\ \A j \in DOMAIN seen : seen[j] # cur
             THEN first_seen(raw, i + 1, cur, Append(seen, cur))
             ELSE first_seen(raw, i + 1, cur, seen)

\* C21: filter_cargo_clippy is deterministic: the summary of a raw input is
\* the one summary in which rule groups of equal count stand in the order in
\* which the rules were first seen in the input; no run on the same input
\* gives another summary.
C21_Deterministic ==
    (cmd = "clippy" /\ pc = "done") =>
        result = clippy_render(by_rule, first_seen(output, 1, "", <<>>),
                               error_count, warning_count)

(***************************************************************************)
(* Claims about the three cargo filters.                                   *)
(***************************************************************************)
is_banner_line(line) ==
    \/ starts_with(trim_start(line), "Compiling")
    \/ starts_with(trim_start(line), "Downloading")
    \/ starts_with(trim_start(line), "Downloaded")
    \/ starts_with(trim_start(line), "Finished")

\* C23: the output of filter_cargo_build, filter_cargo_test (fallback path
\* included) and filter_cargo_clippy holds no progress banner: no line of it
\* starts, after leading whitespace, with Compiling, Downloading, Downloaded
\* or Finished.
C23_NoBanner ==
    (cmd \in {"build", "test", "clippy"} /\ pc = "done") =>
        \A p \in DOMAIN lines(result) : ~is_banner_line(lines(result)[p])

(***************************************************************************)
(* Claims about filter_ls_output.                                          *)
(***************************************************************************)
SrcLong == "drwxr-xr-x  2 u g 64 Jan  1 12:00 src"
SrcShort == "src"

is_src_line(line) == line \in {SrcLong, SrcShort}

ends_in_noise(line) ==
    \E i \in DOMAIN NOISE_DIRS : ends_with(trim(line), NOISE_DIRS[i])

entry_name(line) ==
    LET parts == split_whitespace(line)
    IN  IF /\ Len(parts) >= NameField
           /\ starts_with(parts[1], "d") \/ starts_with(parts[1], "-")
        THEN join(SubSeq(parts, NameField, Len(parts)), " ")
        ELSE trim(line)

denylisted(name) == \E i \in DOMAIN NOISE_DIRS : name = NOISE_DIRS[i]

kept_by_name(line) == ~is_total(line) /\ ~denylisted(entry_name(line))

\* C13: without show-all a line is dropped only when the name of its entry
\* is exactly a name of the denylist: the retained lines are the lines whose
\* entry name is not on the denylist, in their original order.
C13_ExactNameMatch ==
    (cmd = "ls" /\ pc = "done" /\ ~show_all) =>
        ls_lines = SelectSeq(output, kept_by_name)

is_digit(c) == c \in {"0", "1", "2", "3", "4", "5", "6", "7", "8", "9"}

is_total_header(line) ==
    /\ starts_with(line, "total ")
    /\ Len(line) > Len("total ")
    /\ \A i \in (Len("total ") + 1)..Len(line) : is_digit(char_at(line, i))

not_total_header(line) == ~is_total_header(line)

\* C14: with show-all the listing part of the output is exactly the input
\* lines that are not the 'total N' header, in their original order; the
\* 'total N' header is dropped with and without show-all.
C14_ShowAllKeepsAll ==
    (cmd = "ls" /\ pc = "done") =>
        /\ \A j \in DOMAIN ls_lines : ~is_total_header(ls_lines[j])
        /\ show_all =>
               /\ ls_lines = SelectSeq(output, not_total_header)
               /\ ls_lines # <<>> =>
                      SubSeq(lines(result), 1, Len(ls_lines)) = ls_lines

counted(entries) ==
    \E j \in DOMAIN entries : is_dir_entry(entries[j]) \/ is_file_entry(entries[j])

\* C16: when no listing line remains, filter_ls_output returns exactly one
\* newline; otherwise it returns the retained lines joined by newlines, then,
\* when a file or a directory was counted, a blank line and the one summary
\* line, then one final newline.
C16_OutputShape ==
    (cmd = "ls" /\ pc = "done") =>
        IF ls_lines = <<>> THEN result = "\n"
        ELSE /\ ends_with(result, "\n")
             /\ Len(lines(result)) = Len(ls_lines) + (IF counted(ls_lines) THEN 2 ELSE 0)
             /\ SubSeq(lines(result), 1, Len(ls_lines)) = ls_lines
             /\ counted(ls_lines) =>
                    /\ lines(result)[Len(ls_lines) + 1] = ""
                    /\ starts_with(lines(result)[Len(ls_lines) + 2], CHART \o " ")

C16_Witness ==
    /\ cmd = "ls" /\ pc = "done"
    /\ Len(ls_lines) = 2 /\ Len(output) = 3
    /\ is_file_entry(ls_lines[1]) /\ is_dir_entry(ls_lines[2])
    /\ Len(lines(result)) = 4

\* The type indicator of a listing line: the first character of its first
\* field.
type_indicator(line) == char_at(trim_start(line), 1)

is_regular(line) == type_indicator(line) = "-"

is_directory(line) == type_indicator(line) = "d"

\* The bucket of a regular file: its name from the last dot on, 'no ext'
\* for a name without a dot.
bucket_of(line) ==
    LET name == entry_name(line)
    IN  IF contains(name, ".") THEN SubSeq(name, rfind(name, "."), Len(name))
        ELSE "no ext"

bucket_count(entries, bucket) ==
    Cardinality({j \in DOMAIN entries :
                    is_regular(entries[j]) /\ bucket_of(entries[j]) = bucket})

\* The pieces of a text between the separators ", ".
RECURSIVE split_items(_, _)
split_items(text, i) ==
    IF i + 1 > Len(text) THEN <<text>>
    ELSE IF SubSeq(text, i, i + 1) = ", "
    THEN <<SubSeq(text, 1, i - 1)>> \o split_items(SubSeq(text, i + 2, Len(text)), 1)
    ELSE split_items(text, i + 1)

\* C22: in the summary of a listing the file total is the number of retained
\* regular-file entries (type indicator '-') and the sum of the counts of all
\* extension buckets; the directory total is the number of retained entries
\* of type 'd' and is printed only when positive; entries of another type
\* are counted nowhere; a name without a dot is in the bucket 'no ext'; at
\* most TopExtensions buckets are printed, in non-increasing order of count,
\* followed by '+K more' exactly when there are K > 0 buckets more.
C22_SummaryCounts ==
    (cmd = "ls" /\ pc = "done" /\ ls_lines # <<>>) =>
        LET files == Len(SelectSeq(ls_lines, is_regular))
            dirs == Len(SelectSeq(ls_lines, is_directory))
            buckets == {bucket_of(ls_lines[j]) :
                           j \in {k \in DOMAIN ls_lines : is_regular(ls_lines[k])}}
            count == [b \in buckets |-> bucket_count(ls_lines, b)]
            out == lines(result)
            summary == out[Len(out)]
            totals == CHART \o " " \o ToString(files) \o " files"
                      \o (IF dirs > 0 THEN ", " \o ToString(dirs) \o " dirs" ELSE "")
            nshown == IF Cardinality(buckets) < TopExtensions
                      THEN Cardinality(buckets) ELSE TopExtensions
        IN  IF files = 0 /\ dirs = 0 THEN out = ls_lines
            ELSE IF buckets = {} THEN summary = totals
            ELSE /\ starts_with(summary, totals \o " (") /\ ends_with(summary, ")")
                 /\ LET items == split_items(SubSeq(summary, Len(totals) + 3,
                                                    Len(summary) - 1), 1)
                        item(b) == ToString(count[b]) \o " " \o b
                    IN  /\ Len(items) = nshown
                                + (IF Cardinality(buckets) > TopExtensions THEN 1 ELSE 0)
                        /\ \A i \in 1..nshown : \E b \in buckets : items[i] = item(b)
                        /\ LET shown == [i \in 1..nshown |->
                                            CHOOSE b \in buckets : items[i] = item(b)]
                           IN  /\ \A i, j \in 1..nshown : i < j =>
                                      shown[i] # shown[j]
                                      /\ count[shown[i]] >= count[shown[j]]
                               /\ \A b \in buckets \ {shown[i] : i \in 1..nshown} :
                                      \A i \in 1..nshown : count[b] <= count[shown[i]]
                        /\ Cardinality(buckets) > TopExtensions =>
                               items[Len(items)] =
                                   "+" \o ToString(Cardinality(buckets) - TopExtensions)
                                       \o " more"

(***************************************************************************)
(* Claims about the wrappers.                                              *)
(***************************************************************************)
\* The caller asks for all entries: -a, --all, or a group of short flags
\* that holds a, such as -la and -al.
requests_all(a) ==
    \E i \in DOMAIN a :
        \/ a[i] = "--all"
        \/ starts_with(a[i], "-") /\ ~starts_with(a[i], "--") /\ contains(a[i], "a")

not_total(line) == ~is_total(line)

\* C15: whenever the arguments of the caller ask for all entries in any
\* form, ls::run filters with show_all set and drops no noise entry: every
\* line of the listing but the total header is retained.
C15_AllRequested ==
    (cmd = "ls" /\ pc = "done" /\ requests_all(args)) =>
        show_all /\ ls_lines = SelectSeq(output, not_total)

\* The wrapper is over: it has exited, returned, or died in a panic.
over == pc \in {"exited", "returned", "panic"}

tool_failed == status = "signaled" \/ (status = "exited" /\ code # 0)

\* C17: the exit code of the wrapper is the exit code of the tool: a test
\* run exits with exactly the code of the test process, 0 included; a build
\* and a lint run exit exactly when the tool failed, with the code of the
\* tool; a failed listing exits with the code of ls.
C17_ExitCode ==
    (over /\ status # "unset") =>
        /\ (status = "exited" /\ (cmd = "test" \/ code # 0)) =>
               pc = "exited" /\ exit_code = <<code>>
        /\ status = "signaled" => pc = "exited" /\ exit_code # <<0>>
        /\ (cmd # "test" /\ ~tool_failed) => pc = "returned" /\ exit_code = <<>>

\* C18: for every tool, when the tool has failed the summary of the output
\* captured is rendered and written to standard output before the wrapper
\* exits with the code.
C18_SummaryBeforeExit ==
    (over /\ tool_failed) =>
        /\ pc = "exited"
        /\ Len(stdout) = 1
        /\ starts_with(stdout[1], result)

\* C19: every run goes in the fixed order: the tool is run to its end, its
\* output is classified and the summary rendered, the summary is written to
\* standard output, the tracking sink gets the raw and the filtered text, and
\* only then the exit status is propagated; when the tool cannot be spawned
\* nothing is classified, written or tracked.
C19_FixedOrder ==
    /\ (output # <<>> \/ pc \in {"loop", "done"}) => status # "unset"
    /\ stdout # <<>> =>
           /\ pc \in {"printed", "tracked", "exited", "returned"}
           /\ stdout = <<IF cmd = "ls" THEN result ELSE result \o "\n">>
    /\ tracked # <<>> =>
           /\ stdout # <<>>
           /\ tracked = <<(<<join(output, "\n"), result>>)>>
    /\ (pc \in {"exited", "returned"}) => tracked # <<>>
    /\ pc = "failed" =>
           status = "unset" /\ output = <<>> /\ result = ""
           /\ stdout = <<>> /\ tracked = <<>>

\* C24: a verbose ls::run computes the reduction percentage without
\* unsigned underflow, and the percentage it reports lies in 0..100, for
\* every raw listing of at least one line.
C24_ReductionInRange ==
    (cmd = "ls" /\ verbose > 0 /\ Len(output) >= 1 /\ status = "exited" /\ code = 0) =>
        /\ pc # "panic"
        /\ stderr # <<>> =>
               \E n \in 0..100 :
                   stderr[1] = report(Len(output), Len(lines(result)), ToString(n))

====
